---- MODULE Spec2Model ----
(***************************************************************************)
(* Dual-buffer playback engine of the "Director Suite" App component       *)
(* (src/unnamed/part_000, lines 29-239): startExperience, handleGlobalTap, *)
(* handleUpload, the two expo-av Video players and React's re-render.      *)
(*                                                                         *)
(* React state is held twice: the committed value (what setX wrote) and    *)
(* the rendered value (what the last render captured in the closures and   *)
(* in the style props).  Refs (isTransitioning, playerA, playerB) are      *)
(* shared mutable cells.                                                   *)
(***************************************************************************)
EXTENDS Integers, FiniteSets, Sequences, TLC

STEP_COUNT == 5          \* part_000:21
MaxTaps == 7             \* bound on the number of taps on the viewport
FLOW_STEPS == 3          \* App.tsx:64, the buttons [0, 1, 2]
MaxPicks == 2            \* bound on the pickVideo calls in flight
MaxNexts == 4            \* bound on the number of taps handled by `next`
STEP_COUNT_INIT == 3     \* part_000:381, useState(3)
MaxIds == 3              \* bound on the number of addVideo calls
MaxCalls == 2            \* bound on the store calls and writes in flight

Players == {"A", "B"}
Clips == 0 .. (STEP_COUNT - 1)
NoClip == -1
SlotStates == {"Empty", "Loading", "Ready", "Playing"}

VARIABLES
  steps,            \* steps[i] = TRUE iff steps[i].uri is non-null
  alert,            \* the Alert.alert dialog on screen
  setupMode,        \* useState(true), committed value
  currentIndex,     \* useState(0), committed value
  activePlayer,     \* useState('A'), committed value
  shownSetup,       \* setupMode as of the last render
  cbIndex,          \* currentIndex captured by the rendered handleGlobalTap
  cbActive,         \* activePlayer captured by the rendered closure / styles
  isTransitioning,  \* useRef(false): the transition lock
  players,          \* the two Video surfaces: [st, clip]
  pc,               \* position of the in-flight handleGlobalTap
  hActive,          \* activePlayer captured by the in-flight call
  hNext,            \* nextIndex computed by the in-flight call
  timer,            \* the setTimeout(..., 400) is armed
  taps,             \* history: number of taps delivered to the viewport
  swaps,            \* history: number of advances that ran to setCurrentIndex
  adv               \* history of the settle window opened by the last accepted
                    \* tap: [open, idx, swaps, taps, plays, fails]

\* The "Flow Setup" App of src/App.tsx.
VARIABLES
  uris,             \* useState<string[]>([]): uris[i+1] = TRUE iff index i holds
                    \* a path (FALSE: an undefined entry of the array)
  playing,          \* useState(false)
  index,            \* useState(0)
  flowPlayer,       \* useState('A'): activePlayer, committed value
  flowShown,        \* activePlayer as captured by the rendered `next`
  picks,            \* pickVideo calls in flight: [i, snap, at]
  nexts             \* history: number of taps handled by `next`

\* The "Video Steps" App and its store (part_000, lines 277-541).
VARIABLES
  videos,           \* useVideoStore.videos: sequence of [stepNumber, id]
  storage,          \* AsyncStorage item VIDEO_STORAGE_KEY
  writes,           \* AsyncStorage.setItem calls not yet applied, in order
  calls,            \* addVideo / removeVideo calls in flight
  nextId,           \* Date.now(): the next fresh id
  done,             \* history: ids whose addVideo has completed and whose
                    \* step was not the subject of a later call
  currentScreen,    \* useState('index')
  playIndex,        \* useState(0): currentIndex of the player screen
  isReady,          \* useState(false)
  progress,         \* useState(0), equal to the local p of handleStart
  interval          \* the setInterval of handleStart is running

engineVars == <<steps, alert, setupMode, currentIndex, activePlayer,
                shownSetup, cbIndex, cbActive, isTransitioning, players, pc,
                hActive, hNext, timer, taps, swaps, adv>>

flowVars == <<uris, playing, index, flowPlayer, flowShown, picks, nexts>>

storeVars == <<videos, storage, writes, calls, nextId, done, currentScreen,
               playIndex, isReady, progress, interval>>

vars == <<engineVars, flowVars, storeVars>>

Other(p) == IF p = "A" THEN "B" ELSE "A"

EmptySlot == [st |-> "Empty", clip |-> NoClip]

\* The <Video ref={playerA}> / <Video ref={playerB}> elements are returned
\* only by the playback branch of the render (line 212), which is reached
\* when setupMode is false (line 171): the refs are null on the setup screen.
refsMounted == ~shownSetup

TypeOK ==
  /\ steps \in [Clips -> BOOLEAN]
  /\ alert \in {"none", "Steps Incomplete"}
  /\ setupMode \in BOOLEAN /\ shownSetup \in BOOLEAN
  /\ currentIndex \in Clips /\ cbIndex \in Clips
  /\ activePlayer \in Players /\ cbActive \in Players
  /\ isTransitioning \in BOOLEAN
  /\ players \in [Players -> [st : SlotStates, clip : Clips \cup {NoClip}]]
  /\ pc \in {"idle", "awaitPlay", "playDone", "awaitUnload", "unloadDone"}
  /\ hActive \in Players /\ hNext \in Clips
  /\ timer \in BOOLEAN
  /\ taps \in 0 .. MaxTaps /\ swaps \in 0 .. MaxTaps
  /\ adv \in [open : BOOLEAN, idx : Clips, swaps : 0 .. MaxTaps,
              taps : 0 .. 2, plays : 0 .. 1, fails : 0 .. 1]

EngineInit ==
  /\ steps = [i \in Clips |-> FALSE]
  /\ alert = "none"
  /\ setupMode = TRUE /\ shownSetup = TRUE
  /\ currentIndex = 0 /\ cbIndex = 0
  /\ activePlayer = "A" /\ cbActive = "A"
  /\ isTransitioning = FALSE
  /\ players = [p \in Players |-> EmptySlot]
  /\ pc = "idle" /\ hActive = "A" /\ hNext = 0
  /\ timer = FALSE
  /\ taps = 0 /\ swaps = 0
  /\ adv = [open |-> FALSE, idx |-> 0, swaps |-> 0, taps |-> 0,
            plays |-> 0, fails |-> 0]

\* src/App.tsx, lines 11-19
FlowInit ==
  /\ uris = <<>>
  /\ playing = FALSE
  /\ index = 0
  /\ flowPlayer = "A" /\ flowShown = "A"
  /\ picks = {}
  /\ nexts = 0

\* part_000, lines 308-309 (after loadVideos found nothing stored) and 374-382
StoreInit ==
  /\ videos = <<>>
  /\ storage = <<>>
  /\ writes = <<>>
  /\ calls = {}
  /\ nextId = 1
  /\ done = {}
  /\ currentScreen = "index"
  /\ playIndex = 0
  /\ isReady = FALSE
  /\ progress = 0
  /\ interval = FALSE

\* Each of the three App components starts from its own initial state; a
\* specification below runs one of them.
Init == EngineInit /\ FlowInit /\ StoreInit

----------------------------------------------------------------------------
\* expo-av Video commands, as the engine's slot abstraction sees them.

\* ref.current?.loadAsync(...): optional chaining skips the call on a null ref.
loadAsync(pl, p, clip) ==
  IF refsMounted THEN [pl EXCEPT ![p] = [st |-> "Loading", clip |-> clip]]
  ELSE pl

\* completion of playAsync: a Ready slot starts rendering; otherwise no effect.
played(pl, p) ==
  IF pl[p].st = "Ready" THEN [pl EXCEPT ![p].st = "Playing"] ELSE pl

\* completion of unloadAsync: the surface is released, whatever it held.
unloaded(pl, p) == [pl EXCEPT ![p] = EmptySlot]

----------------------------------------------------------------------------
\* handleUpload(i): pick a video, copy it to step_i.mp4, set steps[i].uri.
HandleUpload(i) ==
  /\ UNCHANGED <<flowVars, storeVars>>
  /\ shownSetup
  /\ ~steps[i]
  /\ steps' = [steps EXCEPT ![i] = TRUE]
  /\ UNCHANGED <<alert, setupMode, currentIndex, activePlayer, shownSetup,
                 cbIndex, cbActive, isTransitioning, players, pc, hActive,
                 hNext, timer, taps, swaps, adv>>

DismissAlert ==
  /\ UNCHANGED <<flowVars, storeVars>>
  /\ alert # "none"
  /\ alert' = "none"
  /\ UNCHANGED <<steps, setupMode, currentIndex, activePlayer, shownSetup,
                 cbIndex, cbActive, isTransitioning, players, pc, hActive,
                 hNext, timer, taps, swaps, adv>>

\* Variant: only the two clips that startExperience loads are checked.
IncompleteFirstTwo(st) == ~st[0] \/ ~st[1]

\* steps.some(s => !s.uri)
Incomplete(st) == \E i \in Clips : ~st[i]

\* startExperience.  Both loadAsync calls go through a null ref on the setup
\* screen, so both awaits resolve at once and the handler runs to the end
\* without another event in between (isLoading goes true and back to false).
StartExperience ==
  /\ UNCHANGED <<flowVars, storeVars>>
  /\ shownSetup
  /\ IF Incomplete(steps)
       THEN /\ alert' = "Steps Incomplete"
            /\ UNCHANGED <<setupMode, players>>
       ELSE /\ players' = loadAsync(loadAsync(players, "A", 0), "B", 1)
            /\ setupMode' = FALSE
            /\ UNCHANGED alert
  /\ UNCHANGED <<steps, currentIndex, activePlayer, shownSetup, cbIndex,
                 cbActive, isTransitioning, pc, hActive, hNext, timer,
                 taps, swaps, adv>>

\* React commits the pending state updates and re-renders: new closures,
\* new style props, and on leaving the setup screen the two Videos mount.
Render ==
  /\ UNCHANGED <<flowVars, storeVars>>
  /\ <<shownSetup, cbIndex, cbActive>> # <<setupMode, currentIndex, activePlayer>>
  /\ shownSetup' = setupMode
  /\ cbIndex' = currentIndex
  /\ cbActive' = activePlayer
  /\ UNCHANGED <<steps, alert, setupMode, currentIndex, activePlayer,
                 isTransitioning, players, pc, hActive, hNext, timer,
                 taps, swaps, adv>>

----------------------------------------------------------------------------
\* handleGlobalTap, one action per segment between its awaits.

\* Variant: the lock is never consulted.
LockedNever == FALSE

\* line 140: if (isTransitioning.current) return;
Locked == isTransitioning

\* Variant: the index stops at the last clip instead of wrapping.
NextIndexClamped(i) == IF i + 1 < STEP_COUNT THEN i + 1 ELSE i

\* line 143 / 144
NextIndex(i) == (i + 1) % STEP_COUNT

\* lines 146, 154: the player that is commanded to play is the one that is
\* not activePlayer in the closure; the other one is reclaimed.
Standby(a) == Other(a)

\* Variant: the old active player is reclaimed before the standby plays.
HandleGlobalTapReclaimsFirst ==
  /\ UNCHANGED <<flowVars, storeVars>>
  /\ refsMounted
  /\ taps < MaxTaps
  /\ taps' = taps + 1
  /\ IF Locked
       THEN UNCHANGED <<isTransitioning, pc, hActive, hNext, activePlayer>>
       ELSE /\ isTransitioning' = TRUE
            /\ hActive' = cbActive
            /\ hNext' = NextIndex(cbIndex)
            /\ activePlayer' = Standby(cbActive)
            /\ pc' = "awaitUnload"
  /\ adv' = IF adv.open
              THEN [adv EXCEPT !.taps = IF adv.taps < 2 THEN adv.taps + 1 ELSE 2]
              ELSE [open |-> TRUE, idx |-> currentIndex, swaps |-> swaps,
                    taps |-> 1, plays |-> 0, fails |-> 0]
  /\ UNCHANGED <<steps, alert, setupMode, currentIndex,
                 shownSetup, cbIndex, cbActive, players, timer, swaps>>

\* A tap on the viewport (onPress={handleGlobalTap}, line 213) runs the
\* closure of the last render up to its first await.
HandleGlobalTap ==
  /\ UNCHANGED <<flowVars, storeVars>>
  /\ refsMounted
  /\ taps < MaxTaps
  /\ taps' = taps + 1
  /\ IF Locked
       THEN UNCHANGED <<isTransitioning, pc, hActive, hNext>>
       ELSE /\ isTransitioning' = TRUE
            /\ hActive' = cbActive
            /\ hNext' = NextIndex(cbIndex)
            /\ pc' = "awaitPlay"      \* playAsync issued on Standby(cbActive)
  /\ adv' = IF adv.open
              THEN [adv EXCEPT !.taps = IF adv.taps < 2 THEN adv.taps + 1 ELSE 2,
                               !.plays = IF Locked THEN adv.plays ELSE 1]
              ELSE [open |-> TRUE, idx |-> currentIndex, swaps |-> swaps,
                    taps |-> 1, plays |-> IF Locked THEN 0 ELSE 1, fails |-> 0]
  /\ UNCHANGED <<steps, alert, setupMode, currentIndex, activePlayer,
                 shownSetup, cbIndex, cbActive, players, timer, swaps>>

\* playAsync resolves on the standby player.
PlayResolved ==
  /\ UNCHANGED <<flowVars, storeVars>>
  /\ pc = "awaitPlay"
  /\ players' = played(players, Standby(hActive))
  /\ pc' = "playDone"
  /\ UNCHANGED <<steps, alert, setupMode, currentIndex, activePlayer,
                 shownSetup, cbIndex, cbActive, isTransitioning, hActive,
                 hNext, timer, taps, swaps, adv>>

\* playAsync rejects: the await throws, nothing catches it, the call ends.
PlayRejected ==
  /\ UNCHANGED <<flowVars, storeVars>>
  /\ pc = "awaitPlay"
  /\ pc' = "idle"
  /\ adv' = [adv EXCEPT !.fails = 1]
  /\ UNCHANGED <<steps, alert, setupMode, currentIndex, activePlayer,
                 shownSetup, cbIndex, cbActive, isTransitioning, players,
                 hActive, hNext, timer, taps, swaps>>

\* Variant: the old active player is not unloaded before it is reused.
AfterPlaySkipsUnload ==
  /\ UNCHANGED <<flowVars, storeVars>>
  /\ pc = "playDone"
  /\ activePlayer' = Standby(hActive)
  /\ pc' = "unloadDone"
  /\ UNCHANGED <<steps, alert, setupMode, currentIndex, shownSetup, cbIndex,
                 cbActive, isTransitioning, players, hActive, hNext, timer,
                 taps, swaps, adv>>

\* lines 149/157 and 152/160: setActivePlayer, then unloadAsync is issued on
\* the player that was active.
AfterPlay ==
  /\ UNCHANGED <<flowVars, storeVars>>
  /\ pc = "playDone"
  /\ activePlayer' = Standby(hActive)
  /\ pc' = "awaitUnload"
  /\ UNCHANGED <<steps, alert, setupMode, currentIndex, shownSetup, cbIndex,
                 cbActive, isTransitioning, players, hActive, hNext, timer,
                 taps, swaps, adv>>

\* unloadAsync resolves on the old active player.
UnloadResolved ==
  /\ UNCHANGED <<flowVars, storeVars>>
  /\ pc = "awaitUnload"
  /\ players' = unloaded(players, hActive)
  /\ pc' = "unloadDone"
  /\ UNCHANGED <<steps, alert, setupMode, currentIndex, activePlayer,
                 shownSetup, cbIndex, cbActive, isTransitioning, hActive,
                 hNext, timer, taps, swaps, adv>>

\* unloadAsync rejects: the await throws and the call ends.
UnloadRejected ==
  /\ UNCHANGED <<flowVars, storeVars>>
  /\ pc = "awaitUnload"
  /\ pc' = "idle"
  /\ UNCHANGED <<steps, alert, setupMode, currentIndex, activePlayer,
                 shownSetup, cbIndex, cbActive, isTransitioning, players,
                 hActive, hNext, timer, taps, swaps, adv>>

\* Variant: the lock is released at the end of the call, not by the timer.
AfterUnloadReleasesAtOnce ==
  /\ UNCHANGED <<flowVars, storeVars>>
  /\ pc = "unloadDone"
  /\ players' = loadAsync(players, hActive, NextIndex(hNext))
  /\ currentIndex' = hNext
  /\ timer' = TRUE
  /\ isTransitioning' = FALSE
  /\ swaps' = swaps + 1
  /\ pc' = "idle"
  /\ UNCHANGED <<steps, alert, setupMode, activePlayer, shownSetup, cbIndex,
                 cbActive, hActive, hNext, taps, adv>>

\* Variant: the reclaimed player is loaded with nextIndex, not preloadIndex.
AfterUnloadLoadsNext ==
  /\ UNCHANGED <<flowVars, storeVars>>
  /\ pc = "unloadDone"
  /\ players' = loadAsync(players, hActive, hNext)
  /\ currentIndex' = hNext
  /\ timer' = TRUE
  /\ swaps' = swaps + 1
  /\ pc' = "idle"
  /\ UNCHANGED <<steps, alert, setupMode, activePlayer, shownSetup, cbIndex,
                 cbActive, isTransitioning, hActive, hNext, taps, adv>>

\* lines 153/161, 164, 167: the un-awaited loadAsync of the preload clip on
\* the reclaimed player, setCurrentIndex(nextIndex), setTimeout(release, 400).
AfterUnload ==
  /\ UNCHANGED <<flowVars, storeVars>>
  /\ pc = "unloadDone"
  /\ players' = loadAsync(players, hActive, NextIndex(hNext))
  /\ currentIndex' = hNext
  /\ timer' = TRUE
  /\ swaps' = swaps + 1
  /\ pc' = "idle"
  /\ UNCHANGED <<steps, alert, setupMode, activePlayer, shownSetup, cbIndex,
                 cbActive, isTransitioning, hActive, hNext, taps, adv>>

\* The 400 ms timer fires.  The render scheduled by setCurrentIndex was
\* queued before the timer was armed, so it has run by then.
ReleaseLock ==
  /\ UNCHANGED <<flowVars, storeVars>>
  /\ timer
  /\ <<shownSetup, cbIndex, cbActive>> = <<setupMode, currentIndex, activePlayer>>
  /\ isTransitioning' = FALSE
  /\ timer' = FALSE
  /\ adv' = [adv EXCEPT !.open = FALSE]
  /\ UNCHANGED <<steps, alert, setupMode, currentIndex, activePlayer,
                 shownSetup, cbIndex, cbActive, players, pc, hActive, hNext,
                 taps, swaps>>

\* The background loadAsync of a player completes ...
LoadResolved(p) ==
  /\ UNCHANGED <<flowVars, storeVars>>
  /\ players[p].st = "Loading"
  /\ players' = [players EXCEPT ![p].st = "Ready"]
  /\ UNCHANGED <<steps, alert, setupMode, currentIndex, activePlayer,
                 shownSetup, cbIndex, cbActive, isTransitioning, pc, hActive,
                 hNext, timer, taps, swaps, adv>>

\* ... or fails; nothing awaits it, the player is left without a clip.
LoadRejected(p) ==
  /\ UNCHANGED <<flowVars, storeVars>>
  /\ players[p].st = "Loading"
  /\ players' = [players EXCEPT ![p] = EmptySlot]
  /\ UNCHANGED <<steps, alert, setupMode, currentIndex, activePlayer,
                 shownSetup, cbIndex, cbActive, isTransitioning, pc, hActive,
                 hNext, timer, taps, swaps, adv>>

Next ==
  \/ \E i \in Clips : HandleUpload(i)
  \/ DismissAlert
  \/ StartExperience
  \/ Render
  \/ HandleGlobalTap
  \/ PlayResolved
  \/ PlayRejected
  \/ AfterPlay
  \/ UnloadResolved
  \/ UnloadRejected
  \/ AfterUnload
  \/ ReleaseLock
  \/ \E p \in Players : LoadResolved(p)
  \/ \E p \in Players : LoadRejected(p)

Spec == Init /\ [][Next]_vars

----------------------------------------------------------------------------
\* src/App.tsx: the "Flow Setup" App.

FlowSlots == 0 .. (FLOW_STEPS - 1)

\* const newUris = [...uris]; newUris[i] = path;  (lines 26-27)
\* Writing past the end of the array extends it with undefined entries.
SetUri(u, i) ==
  [k \in 1 .. (IF Len(u) > i + 1 THEN Len(u) ELSE i + 1) |->
      IF k = i + 1 THEN TRUE ELSE IF k <= Len(u) THEN u[k] ELSE FALSE]

\* Variant: the START button asks for every slot below the length to be set.
StartVisibleAllSet(u) == Len(u) >= 2 /\ \A k \in 1 .. Len(u) : u[k]

\* line 69: {uris.length >= 2 && ...}
StartVisible(u) == Len(u) >= 2

\* A press on "Upload Step i+1" runs pickVideo(i) of the current render up
\* to the picker, which is modal.
PickVideo(i) ==
  /\ ~playing
  /\ \A c \in picks : c.at # "picker"
  /\ Cardinality(picks) < MaxPicks
  /\ picks' = picks \cup {[i |-> i, snap |-> uris, at |-> "picker"]}
  /\ UNCHANGED <<uris, playing, index, flowPlayer, flowShown, nexts>>
  /\ UNCHANGED <<engineVars, storeVars>>

\* The picker returns an asset (line 23) and copyAsync is issued.
PickerReturned(c) ==
  /\ c \in picks /\ c.at = "picker"
  /\ picks' = (picks \ {c}) \cup {[c EXCEPT !.at = "copy"]}
  /\ UNCHANGED <<uris, playing, index, flowPlayer, flowShown, nexts>>
  /\ UNCHANGED <<engineVars, storeVars>>

\* The picker is cancelled, or copyAsync rejects: the call ends.
PickEnded(c) ==
  /\ c \in picks
  /\ picks' = picks \ {c}
  /\ UNCHANGED <<uris, playing, index, flowPlayer, flowShown, nexts>>
  /\ UNCHANGED <<engineVars, storeVars>>

\* copyAsync resolves: lines 26-29, from the uris the call captured.
CopyResolved(c) ==
  /\ c \in picks /\ c.at = "copy"
  /\ uris' = SetUri(c.snap, c.i)
  /\ picks' = picks \ {c}
  /\ UNCHANGED <<playing, index, flowPlayer, flowShown, nexts>>
  /\ UNCHANGED <<engineVars, storeVars>>

\* line 70: onPress={() => setPlaying(true)}
StartPlayback ==
  /\ ~playing
  /\ \A c \in picks : c.at # "picker"
  /\ StartVisible(uris)
  /\ playing' = TRUE
  /\ UNCHANGED <<uris, index, flowPlayer, flowShown, picks, nexts>>
  /\ UNCHANGED <<engineVars, storeVars>>

\* lines 33-36: next.  setIndex takes an updater, setActivePlayer a value
\* computed from the activePlayer of the render that created the handler.
NextTap ==
  /\ playing
  /\ nexts < MaxNexts
  /\ index' = (index + 1) % Len(uris)
  /\ flowPlayer' = Other(flowShown)
  /\ nexts' = nexts + 1
  /\ UNCHANGED <<uris, playing, flowShown, picks>>
  /\ UNCHANGED <<engineVars, storeVars>>

\* React re-renders the playback screen with the committed activePlayer.
FlowRender ==
  /\ flowShown # flowPlayer
  /\ flowShown' = flowPlayer
  /\ UNCHANGED <<uris, playing, index, flowPlayer, picks, nexts>>
  /\ UNCHANGED <<engineVars, storeVars>>

FlowNext ==
  \/ \E i \in FlowSlots : PickVideo(i)
  \/ \E c \in picks : PickerReturned(c)
  \/ \E c \in picks : PickEnded(c)
  \/ \E c \in picks : CopyResolved(c)
  \/ StartPlayback
  \/ NextTap
  \/ FlowRender

FlowSpec == Init /\ [][FlowNext]_vars

----------------------------------------------------------------------------
\* part_000, lines 277-541: the video store and the "Video Steps" App.

StepNumbers == 1 .. STEP_COUNT_INIT

\* videos.find(v => v.stepNumber === stepNumber) is defined
HasStep(vs, n) == \E k \in 1 .. Len(vs) : vs[k].stepNumber = n

\* videos.filter(v => v.stepNumber !== stepNumber)
RECURSIVE WithoutStep(_, _)
WithoutStep(vs, n) ==
  IF vs = <<>> THEN <<>>
  ELSE IF Head(vs).stepNumber = n THEN WithoutStep(Tail(vs), n)
  ELSE <<Head(vs)>> \o WithoutStep(Tail(vs), n)

\* .sort((a, b) => a.stepNumber - b.stepNumber): a stable insertion sort
RECURSIVE InsertByStep(_, _)
InsertByStep(vs, v) ==
  IF vs = <<>> THEN <<v>>
  ELSE IF v.stepNumber < Head(vs).stepNumber THEN <<v>> \o vs
  ELSE <<Head(vs)>> \o InsertByStep(Tail(vs), v)

RECURSIVE SortByStep(_)
SortByStep(vs) ==
  IF vs = <<>> THEN <<>>
  ELSE InsertByStep(SortByStep(SubSeq(vs, 1, Len(vs) - 1)), vs[Len(vs)])

\* line 335: the list addVideo writes, from the list it read
AddedTo(vs, v) == SortByStep(WithoutStep(vs, v.stepNumber) \o <<v>>)

\* line 343: the list removeVideo writes, from the list it read
RemovedFrom(vs, n) == WithoutStep(vs, n)

\* history: a call for step n starts, so the video of step n may go
Superseded(d, n) == {v \in d : v.stepNumber # n}

InFlight == Cardinality(calls) + Len(writes)

\* addVideo(stepNumber, ...) is called (after the picker returned) and awaits
\* copyAsync (lines 327-330).
AddVideo(n) ==
  /\ currentScreen = "index"
  /\ InFlight < MaxCalls
  /\ nextId <= MaxIds
  /\ calls' = calls \cup {[op |-> "add", stepNumber |-> n, id |-> nextId,
                            at |-> "copy", snap |-> <<>>]}
  /\ nextId' = nextId + 1
  /\ done' = Superseded(done, n)
  /\ UNCHANGED <<videos, storage, writes, currentScreen, playIndex, isReady,
                 progress, interval>>
  /\ UNCHANGED <<engineVars, flowVars>>

\* set({ videos: updated }) and the setItem that follows it (336-337, 344-345)
Commit(c, updated) ==
  /\ videos' = updated
  /\ writes' = Append(writes, [val |-> updated, stepNumber |-> c.stepNumber,
                                id |-> c.id])
  /\ calls' = calls \ {c}

\* copyAsync resolves (lines 331-337): the list is read; an existing video of
\* the step is deleted first, which is another await.
AddCopied(c) ==
  /\ c \in calls /\ c.op = "add" /\ c.at = "copy"
  /\ IF HasStep(videos, c.stepNumber)
       THEN /\ calls' = (calls \ {c}) \cup
                            {[c EXCEPT !.at = "delete", !.snap = videos]}
            /\ UNCHANGED <<videos, writes>>
       ELSE Commit(c, AddedTo(videos, [stepNumber |-> c.stepNumber, id |-> c.id]))
  /\ UNCHANGED <<storage, nextId, done, currentScreen, playIndex, isReady,
                 progress, interval>>
  /\ UNCHANGED <<engineVars, flowVars>>

\* copyAsync rejects: addVideo throws before it touches the list.
AddFailed(c) ==
  /\ c \in calls /\ c.op = "add" /\ c.at = "copy"
  /\ calls' = calls \ {c}
  /\ UNCHANGED <<videos, storage, writes, nextId, done, currentScreen,
                 playIndex, isReady, progress, interval>>
  /\ UNCHANGED <<engineVars, flowVars>>

\* deleteAsync of the existing video resolves (lines 335-337): the new list
\* is computed from the list read before the await.
AddDeleted(c) ==
  /\ c \in calls /\ c.op = "add" /\ c.at = "delete"
  /\ Commit(c, AddedTo(c.snap, [stepNumber |-> c.stepNumber, id |-> c.id]))
  /\ UNCHANGED <<storage, nextId, done, currentScreen, playIndex, isReady,
                 progress, interval>>
  /\ UNCHANGED <<engineVars, flowVars>>

\* removeVideo(stepNumber), from the trash button that is rendered for a
\* step with a video (lines 489-493): reads the list and awaits deleteAsync
\* (lines 340-342).
RemoveVideo(n) ==
  /\ currentScreen = "index"
  /\ HasStep(videos, n)
  /\ InFlight < MaxCalls
  /\ calls' = calls \cup {[op |-> "remove", stepNumber |-> n, id |-> 0,
                            at |-> "delete", snap |-> videos]}
  /\ done' = Superseded(done, n)
  /\ UNCHANGED <<videos, storage, writes, nextId, currentScreen, playIndex,
                 isReady, progress, interval>>
  /\ UNCHANGED <<engineVars, flowVars>>

\* deleteAsync resolves (lines 343-345).
RemoveDeleted(c) ==
  /\ c \in calls /\ c.op = "remove" /\ c.at = "delete"
  /\ Commit(c, RemovedFrom(c.snap, c.stepNumber))
  /\ UNCHANGED <<storage, nextId, done, currentScreen, playIndex, isReady,
                 progress, interval>>
  /\ UNCHANGED <<engineVars, flowVars>>

\* The oldest AsyncStorage.setItem is applied and its call completes.  A
\* completed addVideo is recorded unless another call for its step is in
\* flight.
WriteApplied ==
  /\ writes # <<>>
  /\ storage' = Head(writes).val
  /\ writes' = Tail(writes)
  /\ done' = LET w == Head(writes) IN
             IF /\ w.id # 0
                /\ (\A c \in calls : c.stepNumber # w.stepNumber)
                /\ (\A k \in 2 .. Len(writes) :
                       writes[k].stepNumber # w.stepNumber)
             THEN done \cup {[stepNumber |-> w.stepNumber, id |-> w.id]}
             ELSE done
  /\ UNCHANGED <<videos, calls, nextId, currentScreen, playIndex, isReady,
                 progress, interval>>
  /\ UNCHANGED <<engineVars, flowVars>>

\* handleStart (lines 411-424), up to the start of the interval.
HandleStart ==
  /\ currentScreen = "index"
  /\ Len(videos) # 0
  /\ currentScreen' = "loading"
  /\ interval' = TRUE
  /\ UNCHANGED <<videos, storage, writes, calls, nextId, done, playIndex,
                 isReady, progress>>
  /\ UNCHANGED <<engineVars, flowVars>>

\* One tick of the 50 ms interval (lines 416-423).
Tick ==
  /\ interval
  /\ progress' = progress + 2
  /\ IF progress + 2 >= 100
       THEN interval' = FALSE /\ isReady' = TRUE
       ELSE UNCHANGED <<interval, isReady>>
  /\ UNCHANGED <<videos, storage, writes, calls, nextId, done, currentScreen,
                 playIndex>>
  /\ UNCHANGED <<engineVars, flowVars>>

\* The START button of the loading screen (lines 456-460).
LaunchPlayer ==
  /\ currentScreen = "loading"
  /\ isReady
  /\ currentScreen' = "player"
  /\ UNCHANGED <<videos, storage, writes, calls, nextId, done, playIndex,
                 isReady, progress, interval>>
  /\ UNCHANGED <<engineVars, flowVars>>

\* line 427: currentIndex + 1 < videos.length
HasNext(i, vs) == i + 1 < Len(vs)

\* handleTap (lines 426-436)
HandleTap ==
  /\ currentScreen = "player"
  /\ IF HasNext(playIndex, videos)
       THEN /\ playIndex' = playIndex + 1
            /\ UNCHANGED <<currentScreen, isReady, progress>>
       ELSE /\ currentScreen' = "index"
            /\ playIndex' = 0
            /\ isReady' = FALSE
            /\ progress' = 0
  /\ UNCHANGED <<videos, storage, writes, calls, nextId, done, interval>>
  /\ UNCHANGED <<engineVars, flowVars>>

StoreNext ==
  \/ \E n \in StepNumbers : AddVideo(n)
  \/ \E c \in calls : AddCopied(c)
  \/ \E c \in calls : AddFailed(c)
  \/ \E c \in calls : AddDeleted(c)
  \/ \E n \in StepNumbers : RemoveVideo(n)
  \/ \E c \in calls : RemoveDeleted(c)
  \/ WriteApplied
  \/ HandleStart
  \/ Tick
  \/ LaunchPlayer
  \/ HandleTap

StoreSpec == Init /\ [][StoreNext]_vars

----------------------------------------------------------------------------
\* Properties.

\* An advance has run to its end (or none has started): no call is in
\* flight and the lock, if held, is held only for the armed timer.
Completed == pc = "idle" /\ (isTransitioning => timer)

PlayingSlots == {p \in Players : players[p].st = "Playing"}

\* C1: once startExperience has succeeded, in every state (also between the
\* awaits of handleGlobalTap) the active slot differs from the standby slot
\* and the clip bound to the active slot is the clip at currentIndex.
C1_ActiveHoldsCurrentIndex ==
  ~setupMode =>
     /\ activePlayer # Standby(activePlayer)
     /\ players[activePlayer].clip = currentIndex

\* C2: taps that arrive within the settle window opened by an accepted tap
\* cause no further swap: while the window is open at most one swap has
\* happened and currentIndex has moved by at most 1 (mod length), and when
\* the window has closed exactly one swap has happened and currentIndex has
\* advanced by exactly 1.
C2_DoubleTapOneSwap ==
  adv.taps >= 2 =>
     /\ swaps - adv.swaps \in {0, 1}
     /\ currentIndex = (adv.idx + (swaps - adv.swaps)) % STEP_COUNT
     /\ ~adv.open => swaps = adv.swaps + 1

\* C2 witness: a second tap arrived inside the window and the window closed.
C2_Witness ==
  adv.taps >= 2 /\ ~adv.open /\ swaps = adv.swaps + 1
  /\ currentIndex = NextIndex(adv.idx)

\* C3: a tap delivered while isTransitioning is set issues no command to
\* either player and changes neither currentIndex, activePlayer nor the lock.
C3_LockedTapIsNoOp ==
  [][(taps' = taps + 1 /\ isTransitioning) =>
        UNCHANGED <<players, pc, hActive, hNext, currentIndex, activePlayer,
                    isTransitioning, timer, setupMode>>]_vars

\* C3 witness: a tap was delivered while the lock was held by a call that is
\* still awaiting playAsync.
C3_Witness == adv.taps >= 2 /\ isTransitioning /\ pc = "awaitPlay"

\* C4 as stated: after length(seq) completed advances currentIndex is 0 and
\* slot A is active again.
C4_RoundTripSamePairing ==
  (Completed /\ swaps = STEP_COUNT) => (currentIndex = 0 /\ activePlayer = "A")

\* C4 amended: after n completed advances currentIndex is n mod length and
\* slot A is active iff n is even; so after length(seq) = 5 advances
\* currentIndex is 0 and the pairing is the opposite one (B active).
C4_RoundTripParity ==
  Completed =>
     /\ currentIndex = swaps % STEP_COUNT
     /\ (activePlayer = "A") <=> (swaps % 2 = 0)
     /\ swaps = STEP_COUNT => (currentIndex = 0 /\ activePlayer = "B")

\* C4 witness: length(seq) advances have completed.
C4_Witness == Completed /\ swaps = STEP_COUNT /\ currentIndex = 0

\* C6: loadAsync is never issued on a player that is not Empty: whenever a
\* player enters Loading (or is re-bound while Loading), it was Empty before.
C6_LoadOnlyOnEmpty ==
  [][\A p \in Players :
        (players'[p].st = "Loading" /\ players'[p] # players[p])
           => players[p].st = "Empty"]_vars

\* C6 witness: a third or later advance has re-issued the background load on
\* the player it reclaimed, while the background load that the previous
\* advance started on the other player is still pending.
C6_Witness ==
  /\ swaps >= 3 /\ pc = "idle"
  /\ players[hActive] = [st |-> "Loading", clip |-> NextIndex(hNext)]
  /\ players[Standby(hActive)] = [st |-> "Loading", clip |-> hNext]

\* C7: playAsync is commanded only on a standby player that is Ready, never
\* on one that is Loading or Empty.
C7_PlayOnlyWhenReady ==
  [][(pc' = "awaitPlay" /\ pc # "awaitPlay")
        => players[Standby(cbActive)].st \notin {"Loading", "Empty"}]_vars

\* C8: when playAsync on the standby player fails, the call does not end
\* before play has been commanded a second time on that player.
C8_PlayFailureRetriedOnce ==
  (adv.fails = 1 /\ pc = "idle") => adv.plays = 2

\* C9: at every moment of a playback session exactly one player is Playing.
C9_ExactlyOnePlaying ==
  ~setupMode => Cardinality(PlayingSlots) = 1

\* C10: while some step has a null locator, no step of the program (a call
\* of startExperience in particular) commands a player or leaves setup mode.
C10_IncompleteSequenceRejected ==
  [][(\E i \in Clips : ~steps[i]) =>
        UNCHANGED <<setupMode, players, pc, isTransitioning>>]_vars

\* C10 witness: startExperience was called on an incomplete sequence that has
\* clips 0 and 1, it raised the alert, and the engine is still in setup
\* with both players Empty.
C10_Witness ==
  /\ alert = "Steps Incomplete" /\ ~steps[2] /\ steps[0] /\ steps[1]
  /\ setupMode
  /\ \A p \in Players : players[p].st = "Empty"

\* C12: whenever the lock is free after a successful startExperience, the
\* standby player is bound to the clip at (currentIndex + 1) mod length,
\* loaded or loading; it is never Empty or bound to another clip.
C12_StandbyHoldsNext ==
  (~setupMode /\ ~isTransitioning) =>
     /\ players[Standby(activePlayer)].clip = (currentIndex + 1) % STEP_COUNT
     /\ players[Standby(activePlayer)].st # "Empty"

\* C13: when startExperience has succeeded (and before the first tap),
\* player A is bound to clip 0 and Playing, player B is bound to clip 1 and
\* Ready, A is the active player and currentIndex is 0.
C13_InitializeLoadsBoth ==
  (~setupMode /\ taps = 0) =>
     /\ players["A"] = [st |-> "Playing", clip |-> 0]
     /\ players["B"] = [st |-> "Ready", clip |-> 1]
     /\ activePlayer = "A" /\ currentIndex = 0

\* C14: within an advance the unload of the old active player is issued only
\* once playAsync on the new active player has resolved, the unload resolves
\* only after it was issued, and while play is pending the old active player
\* is neither unloaded nor loaded.
C14_PlayBeforeReclaim ==
  [][/\ (pc' = "awaitUnload" /\ pc # "awaitUnload") => pc = "playDone"
     /\ (pc' = "unloadDone" /\ pc # "unloadDone") => pc = "awaitUnload"
     /\ pc \in {"awaitPlay", "playDone"} =>
           \/ players'[hActive] = players[hActive]
           \/ players[hActive].st = "Loading"]_vars

\* C14 witness: the unload of the old active player is pending and the new
\* active player is Playing.
C14_Witness ==
  /\ pc = "awaitUnload"
  /\ players[Standby(hActive)].st = "Playing"
  /\ players[hActive].st = "Playing"

\* C15: the lock is released only by the 400 ms timer firing, and the timer
\* is armed only while the lock is held; the step that ends the reclaim
\* leaves the lock held.
C15_LockHeldForSettle ==
  [][/\ (isTransitioning /\ ~isTransitioning') => (timer /\ ~timer')
     /\ (timer' /\ ~timer) => (isTransitioning /\ isTransitioning')
     /\ pc = "unloadDone" => isTransitioning']_vars

\* C15 witness: the reclaim has completed (the old active player was unloaded
\* and its preload has finished), no call is in flight, and the lock is still
\* held for the armed timer.
C15_Witness ==
  /\ isTransitioning /\ timer /\ pc = "idle"
  /\ players[hActive] = [st |-> "Ready", clip |-> NextIndex(hNext)]

\* C17: loadAsync on the reclaimed player is issued only in the continuation
\* of that player's resolved unloadAsync, and the clip it loads is the one at
\* (currentIndex + 2) mod length for the currentIndex before the advance.
C17_ReloadAfterUnload ==
  [][\A p \in Players :
        (players'[p].st = "Loading" /\ players'[p] # players[p]) =>
           /\ pc = "unloadDone" /\ p = hActive
           /\ players[p] = EmptySlot
           /\ players'[p].clip = (currentIndex + 2) % STEP_COUNT]_vars

\* C17 witness: the first advance has reloaded player A with clip 2.
C17_Witness ==
  /\ swaps = 1 /\ currentIndex = 1
  /\ players["A"] = [st |-> "Loading", clip |-> 2]

\* C18: the player the rendered styles show (opacity 1) is always Playing.
C18_ShownSlotIsPlaying ==
  refsMounted => players[cbActive].st = "Playing"

\* C19: an advance that has acquired the lock always leaves it releasable:
\* when no call is in flight and the lock is held, the release timer is armed.
C19_LockAlwaysReleased ==
  (pc = "idle" /\ isTransitioning) => timer

\* C11: in App.tsx playback starts (playing becomes true) only when every
\* index below uris.length holds a locator.
C11_StartNeedsAllUris ==
  [][(playing' /\ ~playing) => \A k \in 1 .. Len(uris) : uris[k]]_vars

\* The VideoLayers rendered with isActive (line 444: i === currentIndex)
ActiveLayers == {k \in 1 .. Len(videos) : k - 1 = playIndex}

\* C16: under the Terminate policy a tap at the last index does not swap or
\* increment: it leaves the player screen with currentIndex reset to 0; and
\* while the player screen is shown 0 <= currentIndex < videos.length and
\* exactly one VideoLayer is active.
C16_TerminateKeepsIndexInRange ==
  currentScreen = "player" =>
     /\ 0 <= playIndex /\ playIndex < Len(videos)
     /\ Cardinality(ActiveLayers) = 1

\* C20: a video whose addVideo has completed is in the list until a call for
\* its step starts; the list is strictly increasing in stepNumber (sorted,
\* one video per step); and with no call in flight it equals the stored list.
C20_StoreConsistent ==
  /\ \A d \in done : \E k \in 1 .. Len(videos) : videos[k] = d
  /\ \A j, k \in 1 .. Len(videos) :
        j < k => videos[j].stepNumber < videos[k].stepNumber
  /\ (calls = {} /\ writes = <<>>) => storage = videos

\* C21: on the playback screen of App.tsx, after any number of taps index is
\* the number of taps mod uris.length and activePlayer has been toggled once
\* per tap (it is 'A' exactly when the number of taps is even).
C21_IndexAndPlayerInStep ==
  playing =>
     /\ index = nexts % Len(uris)
     /\ (flowPlayer = "A") <=> (nexts % 2 = 0)

====
